---- MODULE Spec2Model ----
(***************************************************************************)
(* Model of the contact form handler (src/js/form.js) and of the theme     *)
(* system (src/unnamed/part_002) of the landing page.                      *)
(*                                                                         *)
(* A string is a sequence of one-character strings.  SpecValidate applies  *)
(* the two pure validators to bounded inputs; Spec is the event-driven     *)
(* form: submit, blur, input and focus events, the settlement of the       *)
(* simulated submissions and the banner timers; SpecLive is Spec with the  *)
(* timers firing; SpecTheme is the theme system: page load, toggle and     *)
(* system colour-scheme change over a localStorage item.                   *)
(***************************************************************************)
EXTENDS Integers, Sequences, FiniteSets, TLC

VARIABLES
  call,      \* SpecValidate: the pending call of a pure validator
  ret,       \* SpecValidate: what the call returned (Null before it ran)
  layout,    \* the form's markup: document order of the fields, which of
             \* them sit in a .form-group, which groups hold a .form-error
  values,    \* field name -> the field's current value
  marks,     \* field name -> its error marks (classes, ARIA, error text)
  focus,     \* the field holding input focus, or "none"
  button,    \* the submit button: [disabled, loading]
  started,   \* number of simulated submissions started so far
  inflight,  \* the submissions whose 1500 ms timer is pending, oldest first
  banners,   \* the .form-message elements in the form, in document order
  timers,    \* pending banner timers: [el, step], step "fade" or "remove"
  uncaught,  \* whether a handleSubmit call ended in a rejection
  lastEvent, \* what the last handler that ran did
  stored,        \* localStorage item 'theme': {} when absent, else {value}
  hasMatchMedia, \* whether window.matchMedia exists
  systemDark,    \* whether (prefers-color-scheme: dark) matches
  hasMeta,       \* whether the page has a meta[name="theme-color"]
  dataTheme,     \* data-theme of the root element: {} when absent, else {value}
  metaColor,     \* content of the theme-color meta element
  initialised,   \* whether initTheme has run on this page
  listening,     \* whether the colour-scheme change listener is registered
  announcements, \* the status announcements in the body, oldest first
  warned,        \* whether the last saveTheme logged a warning
  original,      \* data-theme before the current run of toggles
  run,           \* number of toggles since the last other theme event
  themeEvent,    \* what the last theme handler that ran was
  hasNav,           \* whether the page has a .hamburger and a .mobile-menu
  hasOverlay,       \* whether the page has a .mobile-menu-overlay
  innerWidth,       \* window.innerWidth
  hamburgerActive,  \* class 'active' on the hamburger
  menuOpen,         \* class 'open' on the mobile menu
  overlayOpen,      \* class 'open' on the overlay
  bodyOverflow,     \* document.body.style.overflow
  ariaExpanded,     \* aria-expanded of the hamburger: {} when absent, else {value}
  ariaHidden,       \* aria-hidden of the mobile menu: {} when absent, else {value}
  hamburgerFocused, \* whether the Escape handler moved focus to the hamburger
  observing,        \* whether the IntersectionObserver observes the typing target
  reducedMotion,    \* whether (prefers-reduced-motion: reduce) matches
  phraseIndex,      \* typing effect: index of the current phrase, from 0
  charIndex,        \* typing effect: number of characters shown
  isDeleting,       \* typing effect: deleting rather than typing
  isPaused,         \* typing effect: the phrase is complete, pause next
  textContent,      \* text of the .typing-text container
  typingTimers,     \* number of pending setTimeout(type, ...) timers
  typingStarted,    \* whether type() has been called
  halted,           \* whether a type() call returned without a new timer
  mainEvent         \* what the last handler of main.js that ran was

formVars == <<layout, values, marks, focus, button, started, inflight, banners,
              timers, uncaught, lastEvent>>

themeVars == <<stored, hasMatchMedia, systemDark, hasMeta, dataTheme, metaColor,
               initialised, listening, announcements, warned, original, run,
               themeEvent>>

navVars == <<hasNav, hasOverlay, innerWidth, hamburgerActive, menuOpen,
             overlayOpen, bodyOverflow, ariaExpanded, ariaHidden,
             hamburgerFocused>>

typingVars == <<observing, reducedMotion, phraseIndex, charIndex, isDeleting,
                isPaused, textContent, typingTimers, typingStarted, halted>>

mainVars == <<navVars, typingVars, mainEvent>>

vars == <<call, ret, formVars, themeVars, mainVars>>

Null == [null |-> TRUE]

----------------------------------------------------------------------------
(* Strings *)

\* longest string over Alphabet that is enumerated exhaustively
MaxLen == 4

Alphabet == {" ", "a", "@", "."}

IsSpace(c) == c = " "

Rep(c, n) == [i \in 1..n |-> c]

ShortStrings == UNION {[1..n -> Alphabet] : n \in 0..MaxLen}

\* run lengths around the length limits of the rules (2, 10, 100, 1000)
PadLens == {8, 9, 10, 98, 99, 100, 101, 998, 999, 1000, 1001}

Edges == {<<>>, <<" ">>, <<"a">>, <<"@">>, <<".">>, <<"@", "a", ".">>}

LongStrings == {pre \o Rep("a", n) \o suf : pre \in Edges, suf \in Edges, n \in PadLens}

Strings == ShortStrings \cup LongStrings

\* String.prototype.trim: drop leading and trailing white space
RECURSIVE TrimLeft(_)
TrimLeft(s) ==
  IF s # <<>> /\ IsSpace(Head(s)) THEN TrimLeft(Tail(s)) ELSE s

RECURSIVE TrimRight(_)
TrimRight(s) ==
  IF s # <<>> /\ IsSpace(s[Len(s)]) THEN TrimRight(SubSeq(s, 1, Len(s) - 1)) ELSE s

Trim(s) == TrimRight(TrimLeft(s))

\* the character class [^\s@]
NotSpaceAt(c) == ~IsSpace(c) /\ c # "@"

\* /^[^\s@]+@[^\s@]+\.[^\s@]+$/.test(s)
EmailPatternTest(s) ==
  \E i \in 2..Len(s) :
    /\ s[i] = "@"
    /\ \E j \in (i + 2)..(Len(s) - 1) :
         /\ s[j] = "."
         /\ \A k \in 1..(i - 1) : NotSpaceAt(s[k])
         /\ \A k \in (i + 1)..(j - 1) : NotSpaceAt(s[k])
         /\ \A k \in (j + 1)..Len(s) : NotSpaceAt(s[k])

----------------------------------------------------------------------------
(* Validation rules and the two validators *)

NameMessage == "Please enter your name (at least 2 characters)"
EmailMessage == "Please enter a valid email address"
MessageMessage == "Please enter a message (at least 10 characters)"

VALIDATION_RULES ==
  [name    |-> [required |-> TRUE, minLength |-> 2, maxLength |-> 100,
                message |-> NameMessage],
   email   |-> [required |-> TRUE, pattern |-> "email",
                message |-> EmailMessage],
   message |-> [required |-> TRUE, minLength |-> 10, maxLength |-> 1000,
                message |-> MessageMessage]]

RuledNames == DOMAIN VALIDATION_RULES

\* names every object inherits from Object.prototype: looking one up in
\* VALIDATION_RULES yields an object that has none of the rule properties
InheritedNames == {"constructor"}

OtherNames == {"phone"}

Names == RuledNames \cup InheritedNames \cup OtherNames

\* the lookup falling back to the rule of the name field
RulesOf_Fallback(name) ==
  IF name \in RuledNames THEN VALIDATION_RULES[name] ELSE VALIDATION_RULES.name

\* VALIDATION_RULES[name]
RulesOf(name) ==
  IF name \in RuledNames THEN VALIDATION_RULES[name]
  ELSE IF name \in InheritedNames THEN [inherited |-> TRUE]
  ELSE Null

\* rules.<prop> read as a condition: an absent property is undefined (falsy),
\* and so are false and 0
Has(rules, prop) == prop \in DOMAIN rules

TruthyFlag(rules, prop) == Has(rules, prop) /\ rules[prop]

TruthyNumber(rules, prop) == Has(rules, prop) /\ rules[prop] # 0

MaxLengthMessage(n) == "Maximum " \o ToString(n) \o " characters allowed"

Valid == [valid |-> TRUE]
Invalid(m) == [valid |-> FALSE, message |-> m]

\* validateField reading the lengths and the pattern off the untrimmed value
validateField_NoTrim(name, value) ==
  LET rules == RulesOf(name)
  IN  IF rules = Null THEN Valid
      ELSE IF TruthyFlag(rules, "required") /\ value = <<>>
        THEN Invalid(rules.message)
      ELSE IF TruthyNumber(rules, "minLength") /\ Len(value) < rules.minLength
        THEN Invalid(rules.message)
      ELSE IF TruthyNumber(rules, "maxLength") /\ Len(value) > rules.maxLength
        THEN Invalid(MaxLengthMessage(rules.maxLength))
      ELSE IF Has(rules, "pattern") /\ ~EmailPatternTest(value)
        THEN Invalid(rules.message)
      ELSE Valid

\* validateField with the minimum-length check one short (< minLength - 1)
validateField_MinShort(name, value) ==
  LET rules == RulesOf(name)
      trimmedValue == Trim(value)
  IN  IF rules = Null THEN Valid
      ELSE IF TruthyFlag(rules, "required") /\ trimmedValue = <<>>
        THEN Invalid(rules.message)
      ELSE IF TruthyNumber(rules, "minLength") /\ Len(trimmedValue) < rules.minLength - 1
        THEN Invalid(rules.message)
      ELSE IF TruthyNumber(rules, "maxLength") /\ Len(trimmedValue) > rules.maxLength
        THEN Invalid(MaxLengthMessage(rules.maxLength))
      ELSE IF Has(rules, "pattern") /\ ~EmailPatternTest(trimmedValue)
        THEN Invalid(rules.message)
      ELSE Valid

\* validateField with the maximum-length check inclusive (>= maxLength)
validateField_MaxInclusive(name, value) ==
  LET rules == RulesOf(name)
      trimmedValue == Trim(value)
  IN  IF rules = Null THEN Valid
      ELSE IF TruthyFlag(rules, "required") /\ trimmedValue = <<>>
        THEN Invalid(rules.message)
      ELSE IF TruthyNumber(rules, "minLength") /\ Len(trimmedValue) < rules.minLength
        THEN Invalid(rules.message)
      ELSE IF TruthyNumber(rules, "maxLength") /\ Len(trimmedValue) >= rules.maxLength
        THEN Invalid(MaxLengthMessage(rules.maxLength))
      ELSE IF Has(rules, "pattern") /\ ~EmailPatternTest(trimmedValue)
        THEN Invalid(rules.message)
      ELSE Valid

\* validateField with the minimum-length check inclusive (<= minLength)
validateField_MinInclusive(name, value) ==
  LET rules == RulesOf(name)
      trimmedValue == Trim(value)
  IN  IF rules = Null THEN Valid
      ELSE IF TruthyFlag(rules, "required") /\ trimmedValue = <<>>
        THEN Invalid(rules.message)
      ELSE IF TruthyNumber(rules, "minLength") /\ Len(trimmedValue) <= rules.minLength
        THEN Invalid(rules.message)
      ELSE IF TruthyNumber(rules, "maxLength") /\ Len(trimmedValue) > rules.maxLength
        THEN Invalid(MaxLengthMessage(rules.maxLength))
      ELSE IF Has(rules, "pattern") /\ ~EmailPatternTest(trimmedValue)
        THEN Invalid(rules.message)
      ELSE Valid

validateField(name, value) ==
  LET rules == RulesOf(name)
      trimmedValue == Trim(value)
  IN  IF rules = Null THEN Valid
      ELSE IF TruthyFlag(rules, "required") /\ trimmedValue = <<>>
        THEN Invalid(rules.message)
      ELSE IF TruthyNumber(rules, "minLength") /\ Len(trimmedValue) < rules.minLength
        THEN Invalid(rules.message)
      ELSE IF TruthyNumber(rules, "maxLength") /\ Len(trimmedValue) > rules.maxLength
        THEN Invalid(MaxLengthMessage(rules.maxLength))
      ELSE IF Has(rules, "pattern") /\ ~EmailPatternTest(trimmedValue)
        THEN Invalid(rules.message)
      ELSE Valid

\* errors[name] = message
Put(obj, key, val) ==
  [k \in DOMAIN obj \cup {key} |-> IF k = key THEN val ELSE obj[k]]

\* the for loop of validateForm over the entries not yet visited
RECURSIVE validateFormLoop(_, _, _)
validateFormLoop(formData, todo, errors) ==
  IF todo = {} THEN errors
  ELSE LET name == CHOOSE n \in todo : TRUE
           result == validateField(name, formData[name])
       IN  validateFormLoop(formData, todo \ {name},
                            IF ~result.valid
                              THEN Put(errors, name, result.message)
                              ELSE errors)

\* the loop leaving at the first entry that fails
RECURSIVE validateFormLoop_FirstOnly(_, _, _)
validateFormLoop_FirstOnly(formData, todo, errors) ==
  IF todo = {} THEN errors
  ELSE LET name == CHOOSE n \in todo : TRUE
           result == validateField(name, formData[name])
       IN  IF ~result.valid
             THEN Put(errors, name, result.message)
             ELSE validateFormLoop_FirstOnly(formData, todo \ {name}, errors)

validateForm_FirstOnly(formData) ==
  validateFormLoop_FirstOnly(formData, DOMAIN formData, <<>>)

\* the loop recording an entry for every field, valid or not
validateForm_EveryField(formData) ==
  [n \in DOMAIN formData |->
     IF validateField(n, formData[n]).valid THEN ""
     ELSE validateField(n, formData[n]).message]

\* formData is a function from its keys to strings (an object); the result
\* maps the keys that fail to their messages
validateForm(formData) == validateFormLoop(formData, DOMAIN formData, <<>>)

----------------------------------------------------------------------------
(* The theme system *)

\* most toggles in a row, and most status announcements in the body at once
MaxToggles == 3

THEME_LIGHT == "light"

THEME_DARK == "dark"

Themes == {THEME_LIGHT, THEME_DARK}

\* what localStorage may hold under THEME_KEY when the page loads: nothing,
\* the empty string, a theme, or some other string
StoredItems == {{}, {""}, {THEME_LIGHT}, {THEME_DARK}, {"blue"}}

\* localStorage.getItem / getAttribute: the value of a present item
Item(item) == CHOOSE v \in item : TRUE

\* JavaScript truthiness of getItem's result: null and "" are falsy
TruthyItem(item) == item # {} /\ Item(item) # ""

\* getPreferredTheme asking the system first and storage second
getPreferredTheme_SystemFirst(savedTheme, matchMedia, matches) ==
  IF matchMedia /\ matches
    THEN THEME_DARK
    ELSE IF savedTheme # {} /\ Item(savedTheme) \in Themes
           THEN Item(savedTheme)
           ELSE THEME_LIGHT

\* getPreferredTheme: the stored theme, else the system preference, else light
getPreferredTheme(savedTheme, matchMedia, matches) ==
  IF savedTheme # {} /\ Item(savedTheme) \in Themes
    THEN Item(savedTheme)
    ELSE IF matchMedia /\ matches
           THEN THEME_DARK
           ELSE THEME_LIGHT

\* applyTheme: the root attribute and, when present, the meta theme-color
applyTheme(theme) ==
  [dataTheme |-> {theme},
   metaColor |-> IF hasMeta
                   THEN IF theme = THEME_DARK THEN "#111827" ELSE "#FFFFFF"
                   ELSE metaColor]

\* saveTheme: setItem, or a warning when setItem throws
saveTheme(theme, throws) ==
  [stored |-> IF throws THEN stored ELSE {theme}, warned |-> throws]

\* toggleTheme: currentTheme, with the light default of an absent attribute
currentTheme ==
  IF dataTheme = {} \/ Item(dataTheme) = "" THEN THEME_LIGHT ELSE Item(dataTheme)

newTheme == IF currentTheme = THEME_LIGHT THEN THEME_DARK ELSE THEME_LIGHT

\* announceThemeChange: the text of the status element
announcement(theme) == "Theme changed to " \o theme \o " mode"

\* the page before its scripts ran
PageLoaded ==
  /\ dataTheme = {}
  /\ metaColor = ""
  /\ initialised = FALSE
  /\ listening = FALSE
  /\ announcements = <<>>
  /\ warned = FALSE
  /\ original = {}
  /\ run = 0
  /\ themeEvent = "none"

\* the theme state of the specifications of the form: a first visit
ThemeFirstVisit ==
  /\ stored = {}
  /\ hasMatchMedia = TRUE
  /\ systemDark = FALSE
  /\ hasMeta = TRUE
  /\ PageLoaded

\* initTheme, run once when the DOM is ready
initTheme ==
  /\ ~initialised
  /\ LET applied == applyTheme(getPreferredTheme(stored, hasMatchMedia, systemDark))
     IN  /\ dataTheme' = applied.dataTheme
         /\ metaColor' = applied.metaColor
         /\ original' = applied.dataTheme
  /\ initialised' = TRUE
  /\ listening' = hasMatchMedia
  /\ run' = 0
  /\ themeEvent' = "init"
  /\ UNCHANGED <<stored, hasMatchMedia, systemDark, hasMeta, announcements, warned>>
  /\ UNCHANGED <<call, ret, formVars, mainVars>>

\* toggleTheme without the call of saveTheme
toggleTheme_NoSave ==
  /\ run < MaxToggles
  /\ Len(announcements) < MaxToggles
  /\ LET applied == applyTheme(newTheme)
     IN  /\ dataTheme' = applied.dataTheme
         /\ metaColor' = applied.metaColor
  /\ announcements' = Append(announcements, announcement(newTheme))
  /\ run' = run + 1
  /\ themeEvent' = "toggle"
  /\ UNCHANGED <<stored, warned, hasMatchMedia, systemDark, hasMeta, initialised,
                 listening, original>>
  /\ UNCHANGED <<call, ret, formVars, mainVars>>

\* toggleTheme, from a click or key on a .theme-toggle or from
\* window.toggleTheme; setItem may throw
toggleTheme ==
  \E throws \in BOOLEAN :
    /\ run < MaxToggles
    /\ Len(announcements) < MaxToggles
    /\ LET applied == applyTheme(newTheme)
           saved == saveTheme(newTheme, throws)
       IN  /\ dataTheme' = applied.dataTheme
           /\ metaColor' = applied.metaColor
           /\ stored' = saved.stored
           /\ warned' = saved.warned
    /\ announcements' = Append(announcements, announcement(newTheme))
    /\ run' = run + 1
    /\ themeEvent' = "toggle"
    /\ UNCHANGED <<hasMatchMedia, systemDark, hasMeta, initialised, listening,
                   original>>
    /\ UNCHANGED <<call, ret, formVars, mainVars>>

\* the 1000 ms timer of the oldest announcement removes it
announcementTimer ==
  /\ announcements # <<>>
  /\ announcements' = Tail(announcements)
  /\ themeEvent' = "announcementTimer"
  /\ UNCHANGED <<stored, hasMatchMedia, systemDark, hasMeta, dataTheme, metaColor,
                 initialised, listening, warned, original, run>>
  /\ UNCHANGED <<call, ret, formVars, mainVars>>

\* the system colour scheme changes; the change listener of initTheme runs
\* when it was registered
systemChange ==
  /\ systemDark' = ~systemDark
  /\ IF listening /\ ~TruthyItem(stored)
       THEN LET applied == applyTheme(IF systemDark' THEN THEME_DARK ELSE THEME_LIGHT)
            IN  /\ dataTheme' = applied.dataTheme
                /\ metaColor' = applied.metaColor
       ELSE UNCHANGED <<dataTheme, metaColor>>
  /\ original' = dataTheme'
  /\ run' = 0
  /\ themeEvent' = "systemChange"
  /\ UNCHANGED <<stored, hasMatchMedia, hasMeta, initialised, listening,
                 announcements, warned>>
  /\ UNCHANGED <<call, ret, formVars, mainVars>>

\* the page is loaded again: a new document, the same localStorage
reload ==
  /\ initialised
  /\ dataTheme' = {}
  /\ metaColor' = ""
  /\ initialised' = FALSE
  /\ listening' = FALSE
  /\ announcements' = <<>>
  /\ warned' = FALSE
  /\ original' = {}
  /\ run' = 0
  /\ themeEvent' = "reload"
  /\ UNCHANGED <<stored, hasMatchMedia, systemDark, hasMeta>>
  /\ UNCHANGED <<call, ret, formVars, mainVars>>

----------------------------------------------------------------------------
(* The mobile navigation and the typing effect (src/js/main.js) *)

\* window widths around the 768 px limit of the resize handler
Widths == {375, 768, 769, 1280}

\* String(b) of a boolean, as setAttribute stores it
BoolString(b) == IF b THEN "true" ELSE "false"

\* the closed menu of the markup; the ARIA attributes may be absent
NavClosed ==
  /\ hamburgerActive = FALSE
  /\ menuOpen = FALSE
  /\ overlayOpen = FALSE
  /\ bodyOverflow = ""
  /\ ariaExpanded \in {{}, {"false"}}
  /\ ariaHidden \in {{}, {"true"}}
  /\ hamburgerFocused = FALSE

\* closeMenu
closeMenu ==
  /\ hamburgerActive' = FALSE
  /\ menuOpen' = FALSE
  /\ overlayOpen' = FALSE
  /\ bodyOverflow' = ""
  /\ ariaExpanded' = {"false"}
  /\ ariaHidden' = {"true"}

\* toggleMenu toggling the menu and the overlay but not the hamburger
toggleMenu_KeepHamburger ==
  /\ hasNav
  /\ hamburgerActive' = hamburgerActive
  /\ menuOpen' = ~menuOpen
  /\ overlayOpen' = IF hasOverlay THEN ~overlayOpen ELSE overlayOpen
  /\ bodyOverflow' = IF menuOpen THEN "" ELSE "hidden"
  /\ ariaExpanded' = {BoolString(~menuOpen)}
  /\ ariaHidden' = {BoolString(menuOpen)}
  /\ mainEvent' = "hamburgerClick"
  /\ UNCHANGED <<hasNav, hasOverlay, innerWidth, hamburgerFocused, typingVars>>
  /\ UNCHANGED <<call, ret, formVars, themeVars>>

\* a click on the hamburger: toggleMenu
toggleMenu ==
  /\ hasNav
  /\ hamburgerActive' = ~hamburgerActive
  /\ menuOpen' = ~menuOpen
  /\ overlayOpen' = IF hasOverlay THEN ~overlayOpen ELSE overlayOpen
  /\ bodyOverflow' = IF menuOpen THEN "" ELSE "hidden"
  /\ ariaExpanded' = {BoolString(~menuOpen)}
  /\ ariaHidden' = {BoolString(menuOpen)}
  /\ mainEvent' = "hamburgerClick"
  /\ UNCHANGED <<hasNav, hasOverlay, innerWidth, hamburgerFocused, typingVars>>
  /\ UNCHANGED <<call, ret, formVars, themeVars>>

\* a click on the overlay
overlayClick ==
  /\ hasNav
  /\ hasOverlay
  /\ closeMenu
  /\ mainEvent' = "overlayClick"
  /\ UNCHANGED <<hasNav, hasOverlay, innerWidth, hamburgerFocused, typingVars>>
  /\ UNCHANGED <<call, ret, formVars, themeVars>>

\* a click on a .mobile-nav-link
linkClick ==
  /\ hasNav
  /\ closeMenu
  /\ mainEvent' = "linkClick"
  /\ UNCHANGED <<hasNav, hasOverlay, innerWidth, hamburgerFocused, typingVars>>
  /\ UNCHANGED <<call, ret, formVars, themeVars>>

\* a keydown event; Escape closes the open menu and focuses the hamburger
keydown ==
  \E key \in {"Escape", "Enter"} :
    /\ hasNav
    /\ IF key = "Escape" /\ menuOpen
         THEN closeMenu /\ hamburgerFocused' = TRUE
         ELSE UNCHANGED <<hamburgerActive, menuOpen, overlayOpen, bodyOverflow,
                          ariaExpanded, ariaHidden, hamburgerFocused>>
    /\ mainEvent' = key
    /\ UNCHANGED <<hasNav, hasOverlay, innerWidth, typingVars>>
    /\ UNCHANGED <<call, ret, formVars, themeVars>>

\* the window is resized; above 768 px the open menu is closed
resize ==
  \E width \in Widths \ {innerWidth} :
    /\ innerWidth' = width
    /\ IF hasNav /\ width > 768 /\ menuOpen
         THEN closeMenu
         ELSE UNCHANGED <<hamburgerActive, menuOpen, overlayOpen, bodyOverflow,
                          ariaExpanded, ariaHidden>>
    /\ mainEvent' = "resize"
    /\ UNCHANGED <<hasNav, hasOverlay, hamburgerFocused, typingVars>>
    /\ UNCHANGED <<call, ret, formVars, themeVars>>

\* the phrases of the typing effect, as sequences of characters
phrases ==
  <<
     \* We build amazing web experiences.
     <<"W", "e", " ", "b", "u", "i", "l", "d", " ", "a", "m", "a", "z",
       "i", "n", "g", " ", "w", "e", "b", " ", "e", "x", "p", "e", "r",
       "i", "e", "n", "c", "e", "s", ".">>,
     \* We create beautiful interfaces.
     <<"W", "e", " ", "c", "r", "e", "a", "t", "e", " ", "b", "e", "a",
       "u", "t", "i", "f", "u", "l", " ", "i", "n", "t", "e", "r", "f",
       "a", "c", "e", "s", ".">>,
     \* We love clean code.
     <<"W", "e", " ", "l", "o", "v", "e", " ", "c", "l", "e", "a", "n",
       " ", "c", "o", "d", "e", ".">>,
     \* We push boundaries.
     <<"W", "e", " ", "p", "u", "s", "h", " ", "b", "o", "u", "n", "d",
       "a", "r", "i", "e", "s", ".">>,
     \* We make ideas reality.
     <<"W", "e", " ", "m", "a", "k", "e", " ", "i", "d", "e", "a", "s",
       " ", "r", "e", "a", "l", "i", "t", "y", ".">>
  >>

\* currentPhrase.substring(0, end) for 0 <= end
Substring(phrase, end) ==
  SubSeq(phrase, 1, IF end < Len(phrase) THEN end ELSE Len(phrase))

\* the state type() reads and writes
TypingState ==
  [phraseIndex |-> phraseIndex, charIndex |-> charIndex,
   isDeleting |-> isDeleting, isPaused |-> isPaused,
   textContent |-> textContent, timers |-> typingTimers, halted |-> halted]

\* the batches of entries one observer callback may receive for the observed
\* element: one entry for every crossing of the threshold since the last
\* callback, TRUE for an intersecting entry
EntryBatches == {<<FALSE>>, <<TRUE>>, <<FALSE, TRUE>>, <<TRUE, FALSE, TRUE>>}

\* type(): one step of the typing effect on state st
typeStep(st, reduced) ==
  IF reduced
    THEN [st EXCEPT !.textContent = phrases[1], !.halted = TRUE]
  ELSE IF st.isPaused
    THEN [st EXCEPT !.isPaused = FALSE, !.isDeleting = TRUE,
                    !.timers = @ + 1]
  ELSE IF st.isDeleting
    THEN [st EXCEPT
            !.textContent = Substring(phrases[st.phraseIndex + 1], st.charIndex - 1),
            !.charIndex = @ - 1,
            !.isDeleting = st.charIndex - 1 # 0,
            !.phraseIndex = IF st.charIndex - 1 = 0
                              THEN (@ + 1) % Len(phrases) ELSE @,
            !.timers = @ + 1]
  ELSE [st EXCEPT
          !.textContent = Substring(phrases[st.phraseIndex + 1], st.charIndex + 1),
          !.charIndex = @ + 1,
          !.isPaused = st.charIndex + 1 = Len(phrases[st.phraseIndex + 1]),
          !.timers = @ + 1]

\* entries.forEach of the observer callback: type() for every intersecting
\* entry
RECURSIVE forEachEntry(_, _, _)
forEachEntry(st, entries, reduced) ==
  IF entries = <<>> THEN st
  ELSE forEachEntry(IF Head(entries) THEN typeStep(st, reduced) ELSE st,
                    Tail(entries), reduced)

\* the typing effect writes st
SetTyping(st) ==
  /\ phraseIndex' = st.phraseIndex
  /\ charIndex' = st.charIndex
  /\ isDeleting' = st.isDeleting
  /\ isPaused' = st.isPaused
  /\ textContent' = st.textContent
  /\ typingTimers' = st.timers
  /\ halted' = st.halted

\* initTypingEffect before the observer reported: the observer observes when
\* the page has a .typing-text container
TypingIdle ==
  /\ phraseIndex = 0
  /\ charIndex = 0
  /\ isDeleting = FALSE
  /\ isPaused = FALSE
  /\ textContent = <<>>
  /\ typingTimers = 0
  /\ typingStarted = FALSE
  /\ halted = FALSE

\* the IntersectionObserver callback
observerCallback ==
  \E entries \in EntryBatches :
    LET intersecting == \E i \in 1..Len(entries) : entries[i]
    IN  /\ observing
        /\ SetTyping(forEachEntry(TypingState, entries, reducedMotion))
        /\ typingStarted' = intersecting
        /\ observing' = ~intersecting
        /\ mainEvent' = "observer"
        /\ UNCHANGED <<navVars, reducedMotion>>
        /\ UNCHANGED <<call, ret, formVars, themeVars>>

\* a pending timer of the typing effect fires: type()
typeTimer ==
  /\ typingTimers > 0
  /\ SetTyping(typeStep([TypingState EXCEPT !.timers = @ - 1], reducedMotion))
  /\ mainEvent' = "type"
  /\ UNCHANGED <<navVars, observing, reducedMotion, typingStarted>>
  /\ UNCHANGED <<call, ret, formVars, themeVars>>

\* the user changes the reduced-motion preference of the system
motionChange ==
  /\ reducedMotion' = ~reducedMotion
  /\ mainEvent' = "motionChange"
  /\ UNCHANGED <<navVars, observing, phraseIndex, charIndex, isDeleting, isPaused,
                 textContent, typingTimers, typingStarted, halted>>
  /\ UNCHANGED <<call, ret, formVars, themeVars>>

\* the state of main.js in the specifications of the form and the theme
MainIdle ==
  /\ hasNav = TRUE
  /\ hasOverlay = TRUE
  /\ innerWidth = 1280
  /\ NavClosed
  /\ ariaExpanded = {"false"}
  /\ ariaHidden = {"true"}
  /\ observing = TRUE
  /\ reducedMotion = FALSE
  /\ TypingIdle
  /\ mainEvent = "none"

----------------------------------------------------------------------------
(* The contact form *)

\* submissions one behaviour may start
MaxSubmissions == 2

Fields == {"name", "email", "message"}

\* the values a user types: empty; valid as a name only; valid in every
\* field; too long for a name and valid as a message
TypedValues ==
  {<<>>, <<"a", "a", " ">>,
   <<"a", "a", "a", "a", "a", "a", "@", "a", ".", "a">>, Rep("a", 101)}

\* value of every field after form.reset()
DefaultValue == <<>>

Orders == {<<"name", "email", "message">>, <<"message", "name", "email">>}

\* which fields sit in a .form-group, and which groups hold a .form-error:
\* every field with both; one field without a group and one group without an
\* error element; no field in a group
Groupings ==
  {[grouped |-> Fields, slots |-> Fields],
   [grouped |-> {"email", "message"}, slots |-> {"message"}],
   [grouped |-> {}, slots |-> {}]}

Layouts ==
  {[order |-> o, grouped |-> g.grouped, slots |-> g.slots] :
     o \in Orders, g \in Groupings}

NoMarks ==
  [error |-> FALSE, hasError |-> FALSE, ariaInvalid |-> FALSE,
   describedBy |-> FALSE, text |-> ""]

SuccessMessage == "Thank you for your message! We'll get back to you soon."
FailureMessage == "Submission failed. Please try again later."

showFieldError(m, field, message) ==
  IF field \notin layout.grouped THEN m
  ELSE [m EXCEPT ![field] =
          [error |-> TRUE,
           hasError |-> TRUE,
           ariaInvalid |-> TRUE,
           describedBy |-> IF field \in layout.slots THEN TRUE ELSE @.describedBy,
           text |-> IF field \in layout.slots THEN message ELSE @.text]]

\* clearFieldError leaving aria-invalid on the field
clearFieldError_KeepAria(m, field) ==
  IF field \notin layout.grouped THEN m
  ELSE [m EXCEPT ![field] = [NoMarks EXCEPT !.ariaInvalid = @ \/ m[field].ariaInvalid]]

clearFieldError(m, field) ==
  IF field \notin layout.grouped THEN m
  ELSE [m EXCEPT ![field] = NoMarks]

RECURSIVE clearEach(_, _)
clearEach(m, todo) ==
  IF todo = {} THEN m
  ELSE LET field == CHOOSE f \in todo : TRUE
       IN  clearEach(clearFieldError(m, field), todo \ {field})

clearAllErrors(m) == clearEach(m, Fields)

RECURSIVE showEach(_, _, _)
showEach(m, errors, todo) ==
  IF todo = {} THEN m
  ELSE LET name == CHOOSE n \in todo : TRUE
       IN  showEach(IF name \in Fields THEN showFieldError(m, name, errors[name]) ELSE m,
                    errors, todo \ {name})

\* form.querySelector('.form-input.error, .form-textarea.error'):
\* the first field in document order carrying the error class, or "none"
firstErrorField(m) ==
  LET at == {i \in 1..Len(layout.order) : m[layout.order[i]].error}
  IN  IF at = {} THEN "none"
      ELSE layout.order[CHOOSE i \in at : \A j \in at : i <= j]

\* the marks handleBlur leaves on a field
blurMarks(m, field) ==
  IF RulesOf(field) = Null THEN m
  ELSE LET result == validateField(field, values[field])
       IN  IF ~result.valid THEN showFieldError(m, field, result.message)
           ELSE clearFieldError(m, field)

\* displayErrors: marks every field of errors, then moves focus to the first
\* field with the error class; the field losing focus gets its blur event
displayErrors(m, errors) ==
  LET shown == showEach(m, errors, DOMAIN errors)
      target == firstErrorField(shown)
  IN  IF target = "none" THEN [marks |-> shown, focus |-> focus]
      ELSE [marks |-> IF focus \notin {"none", target}
                        THEN blurMarks(shown, focus) ELSE shown,
            focus |-> target]

setLoadingState(isLoading) == [disabled |-> isLoading, loading |-> isLoading]

\* form.querySelector('.form-message'): the first banner of the form, or Null
banner == IF banners = <<>> THEN Null ELSE Head(banners)

\* existingMessage.remove() when there is an existing message
removeExisting(bs) == IF bs = <<>> THEN bs ELSE Tail(bs)

\* Math.random() in thousandths: 0, the threshold 0.1, just above it, 0.999
RandomValues == {0, 100, 101, 999}

\* simulateSubmission reporting the failure by resolving with success: false
simulateSubmission_ResolveFailure(random) ==
  IF random > 100
    THEN [settled |-> "resolved",
          result |-> [success |-> TRUE, message |-> SuccessMessage]]
    ELSE [settled |-> "resolved",
          result |-> [success |-> FALSE, message |-> FailureMessage]]

\* how the promise of simulateSubmission settles when Math.random() is random
simulateSubmission(random) ==
  IF random > 100
    THEN [settled |-> "resolved",
          result |-> [success |-> TRUE, message |-> SuccessMessage]]
    ELSE [settled |-> "rejected", error |-> [message |-> FailureMessage]]

\* showFormMessage appending the new banner without removing the existing one
showFormMessage_NoRemove(el, type, message) ==
  [banners |-> Append(banners,
                      [el |-> el, type |-> type, message |-> message,
                       opacity |-> "1"]),
   timers |-> IF type = "success"
                THEN timers \cup {[el |-> el, step |-> "fade"]}
                ELSE timers]

\* showFormMessage: removes the existing banner, appends a new element el
\* and, for a success, starts the 5000 ms timer of that element
showFormMessage(el, type, message) ==
  [banners |-> Append(removeExisting(banners),
                      [el |-> el, type |-> type, message |-> message,
                       opacity |-> "1"]),
   timers |-> IF type = "success"
                THEN timers \cup {[el |-> el, step |-> "fade"]}
                ELSE timers]

InitForm ==
  /\ layout \in Layouts
  /\ values = [f \in Fields |-> DefaultValue]
  /\ marks = [f \in Fields |-> NoMarks]
  /\ focus = "none"
  /\ button = [disabled |-> FALSE, loading |-> FALSE]
  /\ started = 0
  /\ inflight = <<>>
  /\ banners = <<>>
  /\ timers = {}
  /\ uncaught = FALSE
  /\ lastEvent = "init"

\* handleSubmit setting the loading state before it validates
handleSubmit_LoadingFirst ==
  LET cleared == clearAllErrors(marks)
      formData == [n \in {"name", "email", "message"} |-> values[n]]
      errors == validateForm(formData)
  IN  IF DOMAIN errors # {}
        THEN LET shown == displayErrors(cleared, errors)
             IN  /\ marks' = shown.marks
                 /\ focus' = shown.focus
                 /\ banners' = removeExisting(banners)
                 /\ button' = setLoadingState(TRUE)
                 /\ lastEvent' = "submitInvalid"
                 /\ UNCHANGED <<mainVars, themeVars, call, ret, layout, values, started, inflight, timers, uncaught>>
        ELSE /\ started < MaxSubmissions
             /\ marks' = cleared
             /\ banners' = removeExisting(banners)
             /\ button' = setLoadingState(TRUE)
             /\ started' = started + 1
             /\ inflight' = Append(inflight, started + 1)
             /\ lastEvent' = "submitStarted"
             /\ UNCHANGED <<mainVars, themeVars, call, ret, layout, values, focus, timers, uncaught>>

\* handleSubmit without clearAllErrors and without removing the banner
handleSubmit_NoClear ==
  LET formData == [n \in {"name", "email", "message"} |-> values[n]]
      errors == validateForm(formData)
  IN  IF DOMAIN errors # {}
        THEN LET shown == displayErrors(marks, errors)
             IN  /\ marks' = shown.marks
                 /\ focus' = shown.focus
                 /\ lastEvent' = "submitInvalid"
                 /\ UNCHANGED <<mainVars, themeVars, call, ret, layout, values, button, started, inflight, banners, timers, uncaught>>
        ELSE /\ started < MaxSubmissions
             /\ button' = setLoadingState(TRUE)
             /\ started' = started + 1
             /\ inflight' = Append(inflight, started + 1)
             /\ lastEvent' = "submitStarted"
             /\ UNCHANGED <<mainVars, themeVars, call, ret, layout, values, marks, focus, banners, timers, uncaught>>

\* the submit event
handleSubmit ==
  LET cleared == clearAllErrors(marks)
      formData == [n \in {"name", "email", "message"} |-> values[n]]
      errors == validateForm(formData)
  IN  IF DOMAIN errors # {}
        THEN LET shown == displayErrors(cleared, errors)
             IN  /\ marks' = shown.marks
                 /\ focus' = shown.focus
                 /\ banners' = removeExisting(banners)
                 /\ lastEvent' = "submitInvalid"
                 /\ UNCHANGED <<mainVars, themeVars, call, ret, layout, values, button, started, inflight, timers, uncaught>>
        ELSE /\ started < MaxSubmissions
             /\ marks' = cleared
             /\ banners' = removeExisting(banners)
             /\ button' = setLoadingState(TRUE)
             /\ started' = started + 1
             /\ inflight' = Append(inflight, started + 1)
             /\ lastEvent' = "submitStarted"
             /\ UNCHANGED <<mainVars, themeVars, call, ret, layout, values, focus, timers, uncaught>>

\* the rejection handled without the finally block
SettleReject_NoFinally ==
  \E random \in RandomValues :
    LET outcome == simulateSubmission(random)
    IN  /\ inflight # <<>>
        /\ outcome.settled = "rejected"
        /\ LET shown == showFormMessage(Head(inflight), "error",
                                         outcome.error.message)
           IN  /\ banners' = shown.banners
               /\ timers' = shown.timers
        /\ inflight' = Tail(inflight)
        /\ lastEvent' = "rejected"
        /\ UNCHANGED <<mainVars, themeVars, call, ret, layout, values, marks, focus, button, started,
                       uncaught>>

\* the resolution handled without form.reset()
SettleResolve_NoReset ==
  \E random \in RandomValues :
    LET outcome == simulateSubmission(random)
    IN  /\ inflight # <<>>
        /\ outcome.settled = "resolved"
        /\ LET shown == showFormMessage(Head(inflight), "success",
                                         outcome.result.message)
           IN  /\ banners' = shown.banners
               /\ timers' = shown.timers
        /\ button' = setLoadingState(FALSE)
        /\ inflight' = Tail(inflight)
        /\ lastEvent' = "resolved"
        /\ UNCHANGED <<mainVars, themeVars, call, ret, layout, values, marks, focus, started, uncaught>>

\* the rejection handled by try/finally without the catch block: the finally
\* block runs and the rejection leaves handleSubmit
SettleReject_NoCatch ==
  \E random \in RandomValues :
    LET outcome == simulateSubmission(random)
    IN  /\ inflight # <<>>
        /\ outcome.settled = "rejected"
        /\ button' = setLoadingState(FALSE)
        /\ inflight' = Tail(inflight)
        /\ uncaught' = TRUE
        /\ lastEvent' = "rejected"
        /\ UNCHANGED <<mainVars, themeVars, call, ret, layout, values, marks, focus, started, banners,
                       timers>>

\* the resolution reaching the submission started last before the older ones
SettleResolve_NewestFirst ==
  \E random \in RandomValues :
    LET outcome == simulateSubmission(random)
    IN  /\ inflight # <<>>
        /\ outcome.settled = "resolved"
        /\ LET shown == showFormMessage(inflight[Len(inflight)], "success",
                                         outcome.result.message)
           IN  /\ banners' = shown.banners
               /\ timers' = shown.timers
        /\ values' = [f \in Fields |-> DefaultValue]
        /\ button' = setLoadingState(FALSE)
        /\ inflight' = SubSeq(inflight, 1, Len(inflight) - 1)
        /\ lastEvent' = "resolved"
        /\ UNCHANGED <<mainVars, themeVars, call, ret, layout, marks, focus, started, uncaught>>

\* the 1500 ms timer of the oldest submission fires and resolves the promise;
\* handleSubmit resumes after the await: banner, form.reset(), button
SettleResolve ==
  \E random \in RandomValues :
    LET outcome == simulateSubmission(random)
    IN  /\ inflight # <<>>
        /\ outcome.settled = "resolved"
        /\ LET shown == showFormMessage(Head(inflight), "success",
                                         outcome.result.message)
           IN  /\ banners' = shown.banners
               /\ timers' = shown.timers
        /\ values' = [f \in Fields |-> DefaultValue]
        /\ button' = setLoadingState(FALSE)
        /\ inflight' = Tail(inflight)
        /\ lastEvent' = "resolved"
        /\ UNCHANGED <<mainVars, themeVars, call, ret, layout, marks, focus, started, uncaught>>

\* the timer fires and rejects the promise; handleSubmit resumes in catch
SettleReject ==
  \E random \in RandomValues :
    LET outcome == simulateSubmission(random)
    IN  /\ inflight # <<>>
        /\ outcome.settled = "rejected"
        /\ LET shown == showFormMessage(Head(inflight), "error",
                                         outcome.error.message)
           IN  /\ banners' = shown.banners
               /\ timers' = shown.timers
        /\ button' = setLoadingState(FALSE)
        /\ inflight' = Tail(inflight)
        /\ lastEvent' = "rejected"
        /\ UNCHANGED <<mainVars, themeVars, call, ret, layout, values, marks, focus, started, uncaught>>

\* the 5000 ms timer of a success banner: fade it, start its 300 ms timer
FadeTimer ==
  \E t \in timers :
    /\ t.step = "fade"
    /\ \A u \in timers : u.step = "fade" => t.el <= u.el
    /\ banners' = [i \in 1..Len(banners) |->
                     IF banners[i].el = t.el
                       THEN [banners[i] EXCEPT !.opacity = "0"] ELSE banners[i]]
    /\ timers' = (timers \ {t}) \cup {[el |-> t.el, step |-> "remove"]}
    /\ lastEvent' = "other"
    /\ UNCHANGED <<mainVars, themeVars, call, ret, layout, values, marks, focus, button, started, inflight, uncaught>>

\* the 300 ms timer removing whatever banner the form holds at that time
RemoveTimer_RemovesCurrent ==
  \E t \in timers :
    /\ t.step = "remove"
    /\ banners' = removeExisting(banners)
    /\ timers' = timers \ {t}
    /\ lastEvent' = "other"
    /\ UNCHANGED <<mainVars, themeVars, call, ret, layout, values, marks, focus, button, started, inflight, uncaught>>

\* the 300 ms timer: remove the element it was started for
RemoveTimer ==
  \E t \in timers :
    /\ t.step = "remove"
    /\ banners' = SelectSeq(banners, LAMBDA b : b.el # t.el)
    /\ timers' = timers \ {t}
    /\ lastEvent' = "other"
    /\ UNCHANGED <<mainVars, themeVars, call, ret, layout, values, marks, focus, button, started, inflight, uncaught>>

\* the user moves focus into a field
FocusField ==
  \E f \in Fields :
    /\ focus = "none"
    /\ focus' = f
    /\ lastEvent' = "other"
    /\ UNCHANGED <<mainVars, themeVars, call, ret, layout, values, marks, button, started, inflight, banners, timers, uncaught>>

\* the focused field loses focus: the blur event
handleBlur ==
  \E f \in Fields :
    /\ focus = f
    /\ marks' = blurMarks(marks, f)
    /\ focus' = "none"
    /\ lastEvent' = "other"
    /\ UNCHANGED <<mainVars, themeVars, call, ret, layout, values, button, started, inflight, banners, timers, uncaught>>

\* the input event validating the way the blur event does
handleInput_Revalidate ==
  \E f \in Fields, v \in TypedValues :
    /\ focus = f
    /\ v # values[f]
    /\ values' = [values EXCEPT ![f] = v]
    /\ marks' = IF validateField(f, v).valid
                  THEN clearFieldError(marks, f)
                  ELSE showFieldError(marks, f, validateField(f, v).message)
    /\ lastEvent' = "other"
    /\ UNCHANGED <<mainVars, themeVars, call, ret, layout, focus, button, started, inflight, banners, timers, uncaught>>

\* the user edits the focused field: the input event
handleInput ==
  \E f \in Fields, v \in TypedValues :
    /\ focus = f
    /\ v # values[f]
    /\ values' = [values EXCEPT ![f] = v]
    /\ marks' = IF marks[f].error /\ validateField(f, v).valid
                  THEN clearFieldError(marks, f) ELSE marks
    /\ lastEvent' = "other"
    /\ UNCHANGED <<mainVars, themeVars, call, ret, layout, focus, button, started, inflight, banners, timers, uncaught>>

Next ==
  \/ handleSubmit
  \/ SettleResolve
  \/ SettleReject
  \/ FadeTimer
  \/ RemoveTimer
  \/ FocusField
  \/ handleBlur
  \/ handleInput

Init == InitForm /\ call = Null /\ ret = Null /\ ThemeFirstVisit /\ MainIdle

Spec == Init /\ [][Next]_vars

\* the markup with every field in a .form-group that holds a .form-error
StandardLayout ==
  [order |-> <<"name", "email", "message">>, grouped |-> Fields, slots |-> Fields]

InitLive == Init /\ layout = StandardLayout

\* every timer that was started fires: the 1500 ms timer of a submission and
\* the 5000 ms and 300 ms timers of a success banner
SpecLive ==
  /\ InitLive
  /\ [][Next]_vars
  /\ WF_vars(SettleResolve \/ SettleReject)
  /\ WF_vars(FadeTimer)
  /\ WF_vars(RemoveTimer)

----------------------------------------------------------------------------
(* SpecValidate: the validators applied to bounded inputs *)

\* values of the snapshots handed to validateForm
SnapshotValues ==
  {<<>>, <<" ", "a", " ">>, Rep("a", 3), Rep("a", 5),
   <<"a", "@", "a", ".", "a">>, Rep("a", 10), Rep("a", 101)}

Snapshots == UNION {[keys -> SnapshotValues] : keys \in SUBSET Names}

InitValidate ==
  /\ call \in [op : {"validateField"}, name : Names, value : Strings]
              \cup [op : {"validateForm"}, formData : Snapshots]
  /\ ret = Null
  /\ ThemeFirstVisit
  /\ MainIdle
  /\ InitForm
  /\ layout = [order |-> <<"name", "email", "message">>, grouped |-> Fields,
               slots |-> Fields]

CallValidateField ==
  /\ call.op = "validateField"
  /\ ret = Null
  /\ ret' = validateField(call.name, call.value)
  /\ UNCHANGED <<mainVars, themeVars, call, formVars>>

CallValidateForm ==
  /\ call.op = "validateForm"
  /\ ret = Null
  /\ ret' = validateForm(call.formData)
  /\ UNCHANGED <<mainVars, themeVars, call, formVars>>

NextValidate == CallValidateField \/ CallValidateForm

SpecValidate == InitValidate /\ [][NextValidate]_vars

----------------------------------------------------------------------------
(* SpecTheme: the theme system over every stored item and environment *)

ThemeInit ==
  /\ InitForm
  /\ layout = StandardLayout
  /\ call = Null
  /\ ret = Null
  /\ stored \in StoredItems
  /\ hasMatchMedia \in BOOLEAN
  /\ systemDark \in BOOLEAN
  /\ hasMeta \in BOOLEAN
  /\ PageLoaded
  /\ MainIdle

NextTheme ==
  \/ initTheme
  \/ toggleTheme
  \/ announcementTimer
  \/ systemChange
  \/ reload

SpecTheme == ThemeInit /\ [][NextTheme]_vars

----------------------------------------------------------------------------
(* SpecNav: the mobile navigation; SpecTyping: the typing effect *)

InitNav ==
  /\ InitForm
  /\ layout = StandardLayout
  /\ call = Null
  /\ ret = Null
  /\ ThemeFirstVisit
  /\ hasNav \in BOOLEAN
  /\ hasOverlay \in BOOLEAN
  /\ innerWidth \in Widths
  /\ NavClosed
  /\ observing = TRUE
  /\ reducedMotion = FALSE
  /\ TypingIdle
  /\ mainEvent = "none"

NextNav ==
  \/ toggleMenu
  \/ overlayClick
  \/ linkClick
  \/ keydown
  \/ resize

SpecNav == InitNav /\ [][NextNav]_vars

InitTyping ==
  /\ InitForm
  /\ layout = StandardLayout
  /\ call = Null
  /\ ret = Null
  /\ ThemeFirstVisit
  /\ hasNav = TRUE
  /\ hasOverlay = TRUE
  /\ innerWidth = 1280
  /\ NavClosed
  /\ ariaExpanded = {"false"}
  /\ ariaHidden = {"true"}
  /\ observing \in BOOLEAN
  /\ reducedMotion \in BOOLEAN
  /\ TypingIdle
  /\ mainEvent = "none"

NextTyping ==
  \/ observerCallback
  \/ typeTimer
  \/ motionChange

SpecTyping == InitTyping /\ [][NextTyping]_vars

----------------------------------------------------------------------------
(* Claims about the validators, checked under SpecValidate *)

FieldReturned == call.op = "validateField" /\ ret # Null
FormReturned == call.op = "validateForm" /\ ret # Null

\* the checks of a ruled field, stated on the trimmed value
FailsRequired(t) == t = <<>>
FailsMin(n, t) ==
  \/ n = "name" /\ Len(t) < 2
  \/ n = "message" /\ Len(t) < 10
FailsMax(n, t) ==
  \/ n = "name" /\ Len(t) > 100
  \/ n = "message" /\ Len(t) > 1000
FailsPattern(n, t) == n = "email" /\ ~EmailPatternTest(t)

FieldMessage(n) ==
  CASE n = "name" -> "Please enter your name (at least 2 characters)"
    [] n = "email" -> "Please enter a valid email address"
    [] n = "message" -> "Please enter a message (at least 10 characters)"

MaximumMessage(n) ==
  CASE n = "name" -> "Maximum 100 characters allowed"
    [] n = "message" -> "Maximum 1000 characters allowed"

\* what the first failing check of a ruled field yields
FirstFailure(n, t) ==
  IF FailsRequired(t) THEN [valid |-> FALSE, message |-> FieldMessage(n)]
  ELSE IF FailsMin(n, t) THEN [valid |-> FALSE, message |-> FieldMessage(n)]
  ELSE IF FailsMax(n, t) THEN [valid |-> FALSE, message |-> MaximumMessage(n)]
  ELSE IF FailsPattern(n, t) THEN [valid |-> FALSE, message |-> FieldMessage(n)]
  ELSE [valid |-> TRUE]

\* C1: validateField checks the trimmed value in the order required, minimum
\* length, maximum length, pattern; it returns invalid with the message of the
\* first check that fails (the field's message, or 'Maximum N characters
\* allowed' for the maximum length) and valid only when no check fails.
C1_FirstFailingCheck ==
  (FieldReturned /\ call.name \in {"name", "email", "message"}) =>
    ret = FirstFailure(call.name, Trim(call.value))

\* a name of 101 characters between spaces was refused with the maximum message
C1_Witness ==
  /\ FieldReturned
  /\ call.name = "name"
  /\ call.value = <<" ">> \o Rep("a", 101) \o <<" ">>
  /\ ret = [valid |-> FALSE, message |-> "Maximum 100 characters allowed"]

\* C2: a field name that is not name, email or message validates for every
\* value, and validateForm never reports an error for such a field.
C2_UnruledAlwaysValid ==
  /\ (FieldReturned /\ call.name \notin {"name", "email", "message"}) =>
        ret = [valid |-> TRUE]
  /\ FormReturned => DOMAIN ret \subseteq {"name", "email", "message"}

\* a snapshot holding unruled fields with empty values came back without them
C2_Witness ==
  /\ FormReturned
  /\ {"phone", "constructor", "name"} \subseteq DOMAIN call.formData
  /\ \A n \in DOMAIN call.formData : call.formData[n] = <<>>
  /\ DOMAIN ret = {"name"}

\* C3: the keys of validateForm's result are exactly the fields of the
\* snapshot that validateField reports invalid, each mapped to the message
\* validateField returned; fields that validate are absent.
C3_FormErrorsExact ==
  FormReturned =>
    /\ DOMAIN ret = {n \in DOMAIN call.formData :
                       ~validateField(n, call.formData[n]).valid}
    /\ \A n \in DOMAIN ret : ret[n] = validateField(n, call.formData[n]).message

\* a snapshot with a failing and a passing ruled field: only the first is kept
C3_Witness ==
  /\ FormReturned
  /\ DOMAIN call.formData = {"name", "email", "message", "phone"}
  /\ call.formData.name = Rep("a", 101)
  /\ call.formData.email = <<"a", "@", "a", ".", "a">>
  /\ DOMAIN ret = {"name"}
  /\ ret.name = "Maximum 100 characters allowed"

\* C4: for a ruled field with a minimum length, every string whose trimmed
\* length is below the minimum (the empty and the all-blank string included)
\* is reported invalid.
C4_BelowMinimumInvalid ==
  (FieldReturned /\ FailsMin(call.name, Trim(call.value))) => ~ret.valid

\* a message of nine characters between spaces, and a blank name, were refused
C4_Witness ==
  /\ FieldReturned
  /\ ~ret.valid
  /\ \/ call.name = "message" /\ call.value = <<" ">> \o Rep("a", 9) \o <<" ">>
     \/ call.name = "name" /\ call.value = <<" ", " ">>

\* the length bounds of a ruled field (email has none)
WithinBounds(n, t) ==
  CASE n = "name" -> Len(t) >= 2 /\ Len(t) <= 100
    [] n = "message" -> Len(t) >= 10 /\ Len(t) <= 1000
    [] n = "email" -> TRUE

\* C5: for a ruled field, every string whose trimmed length is within the
\* field's bounds and which, for email, matches the email pattern, is
\* reported valid.
C5_WithinBoundsValid ==
  (/\ FieldReturned
   /\ call.name \in {"name", "email", "message"}
   /\ WithinBounds(call.name, Trim(call.value))
   /\ call.name = "email" => EmailPatternTest(Trim(call.value))) =>
    ret = [valid |-> TRUE]

\* a name of exactly 100 characters was accepted
C5_Witness ==
  /\ FieldReturned
  /\ call.name = "name"
  /\ Trim(call.value) = Rep("a", 100)
  /\ ret = [valid |-> TRUE]

HasChar(s, c) == \E i \in 1..Len(s) : s[i] = c

\* name of one character, email without '@', message under ten characters
AllThreeInvalid(fd) ==
  /\ {"name", "email", "message"} \subseteq DOMAIN fd
  /\ Len(Trim(fd.name)) = 1
  /\ ~HasChar(fd.email, "@")
  /\ Len(Trim(fd.message)) < 10

\* C6: validateForm of a snapshot whose name has one character, whose email
\* has no '@' and whose message is shorter than ten characters yields exactly
\* three error entries, one per field.
C6_ThreeErrors ==
  (FormReturned /\ AllThreeInvalid(call.formData)) =>
    /\ DOMAIN ret = {"name", "email", "message"}
    /\ Cardinality(DOMAIN ret) = 3

\* {name: "A", email: "bad", message: "short"} by length
C6_Witness ==
  /\ FormReturned
  /\ DOMAIN call.formData = {"name", "email", "message"}
  /\ call.formData.name = <<" ", "a", " ">>
  /\ call.formData.email = Rep("a", 3)
  /\ call.formData.message = Rep("a", 5)
  /\ DOMAIN ret = {"name", "email", "message"}

AllThreeSatisfied(fd) ==
  /\ {"name", "email", "message"} \subseteq DOMAIN fd
  /\ WithinBounds("name", Trim(fd.name))
  /\ EmailPatternTest(Trim(fd.email))
  /\ WithinBounds("message", Trim(fd.message))

\* C7: validateForm of a snapshot whose three ruled fields satisfy their rules
\* yields an empty error mapping.
C7_NoErrors ==
  (FormReturned /\ AllThreeSatisfied(call.formData)) => ret = <<>>

\* a snapshot with a valid name, a valid email and a message of ten characters
C7_Witness ==
  /\ FormReturned
  /\ DOMAIN call.formData = {"name", "email", "message"}
  /\ call.formData.name = Rep("a", 5)
  /\ call.formData.email = <<"a", "@", "a", ".", "a">>
  /\ call.formData.message = Rep("a", 10)
  /\ ret = <<>>

----------------------------------------------------------------------------
(* Claims about the form, checked under Spec *)

InvalidFields == {f \in Fields : ~validateField(f, values[f]).valid}

\* C8: a submit event that finds an invalid field attempts no submission: it
\* starts no submission timer, leaves the submit button as it was, creates no
\* banner and leaves the field values unchanged.
C8_InvalidSubmitNotAttempted ==
  [][lastEvent' = "submitInvalid" =>
       /\ inflight' = inflight
       /\ started' = started
       /\ button' = button
       /\ banner' = Null
       /\ timers' = timers
       /\ values' = values]_vars

\* a submit event just failed validation on typed values, with the button idle
C8_Witness ==
  /\ lastEvent = "submitInvalid"
  /\ values.name = <<"a", "a", " ">>
  /\ values.email = <<"a", "a", " ">>
  /\ inflight = <<>>
  /\ ~button.disabled
  /\ ~button.loading
  /\ banner = Null

\* the invalid field that comes first in document order
FirstInvalidField ==
  LET at == {i \in 1..Len(layout.order) : layout.order[i] \in InvalidFields}
  IN  layout.order[CHOOSE i \in at : \A j \in at : i <= j]

\* C9: after a submit event that fails validation, input focus is on the
\* first invalid field in document order, and the invalid fields, and only
\* they, carry the error state.
C9_FocusFirstInvalid ==
  lastEvent = "submitInvalid" =>
    /\ focus = FirstInvalidField
    /\ \A f \in Fields : marks[f].error <=> f \in InvalidFields

\* C10: whenever a simulated submission is outstanding the submit button is
\* disabled and marked loading.
C10_DisabledWhileOutstanding ==
  inflight # <<>> => button.disabled /\ button.loading

\* the submissions a behaviour may start
SubmissionIds == 1..MaxSubmissions

InFlight(id) == \E i \in 1..Len(inflight) : inflight[i] = id

ButtonIdle == ~button.disabled /\ ~button.loading

\* C11: every submission that was started is eventually followed, at its
\* settlement, by the submit button enabled and not loading, whether the
\* submission resolves or rejects.
C11_EventuallyReenabled ==
  \A id \in SubmissionIds : InFlight(id) ~> (~InFlight(id) /\ ButtonIdle)

\* a rejected submission left the button idle
C11_Witness ==
  /\ lastEvent = "rejected"
  /\ started = 1
  /\ inflight = <<>>
  /\ ButtonIdle

ResolvedShape == [settled |-> "resolved",
                  result |-> [success |-> TRUE, message |-> SuccessMessage]]
RejectedShape == [settled |-> "rejected", error |-> [message |-> FailureMessage]]

\* the step settles submission id in one of the two shapes and shows its message
SettledAs(id) ==
  /\ id = Head(inflight)
  /\ banners' # <<>>
  /\ LET shown == banners'[Len(banners')]
     IN  \E random \in RandomValues :
           LET outcome == simulateSubmission(random)
           IN  \/ /\ outcome = ResolvedShape
                  /\ lastEvent' = "resolved"
                  /\ shown = [el |-> id, type |-> "success",
                              message |-> outcome.result.message, opacity |-> "1"]
               \/ /\ outcome = RejectedShape
                  /\ lastEvent' = "rejected"
                  /\ shown = [el |-> id, type |-> "error",
                              message |-> outcome.error.message, opacity |-> "1"]

\* C12: every simulated submission eventually settles, and settles once, either
\* resolved with {success: true, message} or rejected with an error carrying
\* a message; there is no third outcome and no submission that never settles.
C12_SettlesOnce ==
  /\ \A id \in SubmissionIds : InFlight(id) ~> ~InFlight(id)
  /\ [][\A id \in SubmissionIds :
          /\ (InFlight(id) /\ ~InFlight(id)') => SettledAs(id)
          /\ (id <= started /\ ~InFlight(id)) => ~InFlight(id)']_vars
  /\ [](\A random \in RandomValues :
          simulateSubmission(random) \in {ResolvedShape, RejectedShape})

\* the first of two submissions resolved while the second is outstanding
C12_Witness ==
  /\ lastEvent = "resolved"
  /\ started = 2
  /\ inflight = <<2>>
  /\ banner = [el |-> 1, type |-> "success", message |-> SuccessMessage,
               opacity |-> "1"]

AllEmpty == [f \in Fields |-> <<>>]

\* C13: when a simulated submission resolves, every field of the form is reset
\* to empty and a success banner is shown; when it rejects, the field values
\* are left as they are.
C13_ResetOnSuccess ==
  [][/\ lastEvent' = "resolved" =>
          /\ values' = AllEmpty
          /\ banner' # Null
          /\ banner'.type = "success"
          /\ banner'.opacity = "1"
     /\ lastEvent' = "rejected" => values' = values]_vars

\* a submission resolved: the fields are empty under a success banner
C13_Witness ==
  /\ lastEvent = "resolved"
  /\ values = AllEmpty
  /\ banner # Null
  /\ banner.type = "success"
  /\ banner.message = SuccessMessage

\* C14: a rejected submission is caught inside handleSubmit: it leaves an
\* error banner carrying the rejection's message and the idle button, and no
\* handleSubmit call ends in a rejection.
C14_RejectionCaught ==
  /\ ~uncaught
  /\ lastEvent = "rejected" =>
       /\ ButtonIdle
       /\ banner # Null
       /\ banner.type = "error"
       /\ \E random \in RandomValues :
            /\ simulateSubmission(random).settled = "rejected"
            /\ banner.message = simulateSubmission(random).error.message

\* a submission was rejected with the fields still filled in
C14_Witness ==
  /\ lastEvent = "rejected"
  /\ values # AllEmpty
  /\ banner # Null
  /\ banner.message = "Submission failed. Please try again later."
  /\ ButtonIdle

\* C15: the form holds at most one status banner, a success banner or an
\* error banner.
C15_AtMostOneBanner ==
  /\ Len(banners) <= 1
  /\ \A i \in 1..Len(banners) : banners[i].type \in {"success", "error"}

\* the banner of the second submission has replaced the banner of the first
C15_Witness ==
  /\ Len(banners) = 1
  /\ banners[1].el = 2
  /\ [el |-> 1, step |-> "fade"] \in timers

Shown(id) == \E i \in 1..Len(banners) : banners[i].el = id

ShownAs(id, type) ==
  \E i \in 1..Len(banners) : banners[i].el = id /\ banners[i].type = type

\* the 300 ms timer of banner id fires in this step
OwnTimerFires(id) ==
  /\ [el |-> id, step |-> "remove"] \in timers
  /\ timers' = timers \ {[el |-> id, step |-> "remove"]}

\* the step is a submit event or shows the banner of a settlement
SubmitOrNextBanner ==
  lastEvent' \in {"submitInvalid", "submitStarted", "resolved", "rejected"}

\* C16 as stated: every success banner shown is eventually removed by its own
\* auto-dismiss timer, which removes no other banner; an error banner leaves
\* only at the next submit event or when the next banner replaces it.
C16_RemovedByOwnTimer ==
  /\ \A id \in SubmissionIds : ShownAs(id, "success") ~> ~Shown(id)
  /\ [][\A id \in SubmissionIds :
          /\ (ShownAs(id, "success") /\ ~Shown(id)') => OwnTimerFires(id)
          /\ (ShownAs(id, "error") /\ ~Shown(id)') => SubmitOrNextBanner]_vars

\* C16 (amended): every success banner shown is eventually removed, by its own
\* auto-dismiss timer unless a submit event or the next banner removed it
\* first; a banner timer removes only the banner it was started for; an error
\* banner leaves only at the next submit event or when the next banner
\* replaces it.
C16_AutoDismiss ==
  /\ \A id \in SubmissionIds : ShownAs(id, "success") ~> ~Shown(id)
  /\ [][\A id \in SubmissionIds :
          /\ (ShownAs(id, "success") /\ ~Shown(id)') =>
                OwnTimerFires(id) \/ SubmitOrNextBanner
          /\ (ShownAs(id, "error") /\ ~Shown(id)') => SubmitOrNextBanner
          /\ OwnTimerFires(id) =>
                /\ ~Shown(id)'
                /\ \A other \in SubmissionIds \ {id} : Shown(other) => Shown(other)']_vars

\* the timers of the first banner are still pending under the second banner,
\* which is a success banner already faded by its own timer
C16_Witness ==
  /\ Len(banners) = 1
  /\ banners[1] = [el |-> 2, type |-> "success", message |-> SuccessMessage,
                   opacity |-> "0"]
  /\ [el |-> 2, step |-> "remove"] \in timers
  /\ \E t \in timers : t.el = 1

\* the step is an input event on field f that changes its value
InputStep(f) == values'[f] # values[f] /\ lastEvent' = "other"

\* C17: an input event on a field clears the field's error state when the
\* field carries it and the new value is valid, leaves error state and
\* message unchanged when the new value is invalid, and never puts a field
\* into the error state.
C17_InputOnlyClears ==
  [][\A f \in Fields :
       InputStep(f) =>
         /\ (marks[f].error /\ validateField(f, values'[f]).valid) =>
               marks'[f] = NoMarks
         /\ (marks[f].error /\ ~validateField(f, values'[f]).valid) =>
               marks'[f] = marks[f]
         /\ ~marks[f].error => marks'[f] = marks[f]
         /\ \A g \in Fields \ {f} : marks'[g] = marks[g]]_vars

\* the name field still shows the minimum-length message over a value that is
\* too long: input events kept the error and its message
C17_Witness ==
  /\ lastEvent = "other"
  /\ values.name = Rep("a", 101)
  /\ marks.name.error
  /\ marks.name.text = "Please enter your name (at least 2 characters)"

\* the step is a blur event on field f
BlurStep(f) == focus = f /\ focus' = "none" /\ lastEvent' = "other"

\* C21: a blur event on a ruled field leaves the field in the error state,
\* with the validation message, if and only if its current value is invalid;
\* a blur event on a field without a rule changes nothing.
C21_BlurRevalidates ==
  /\ [][\A f \in Fields :
          BlurStep(f) =>
            LET result == validateField(f, values[f])
            IN  /\ marks'[f].error <=> ~result.valid
                /\ ~result.valid => marks'[f].text = result.message
                /\ result.valid => marks'[f] = NoMarks]_vars
  /\ [](\A n \in Names : RulesOf(n) = Null => blurMarks(marks, n) = marks)

\* the step is a submit event
SubmitStep == lastEvent' \in {"submitInvalid", "submitStarted"}

\* the marks of field f after showFieldError on the cleared field
FreshError(f) ==
  showFieldError([g \in Fields |-> NoMarks], f,
                 validateField(f, values[f]).message)[f]

\* C22: every submit event, passing or failing validation, clears the error
\* state of every field and removes the banner present: after it no banner is
\* left, and a field carries error marks only as this event's validation of
\* its current value set them.
C22_SubmitClearsFirst ==
  [][SubmitStep =>
       /\ banners' = <<>>
       /\ \A f \in Fields :
            \/ marks'[f] = NoMarks
            \/ /\ ~validateField(f, values[f]).valid
               /\ lastEvent' = "submitInvalid"
               /\ marks'[f] = FreshError(f)]_vars

\* a failed submit replaced the stale minimum-length message of the name
\* field and removed the success banner whose fade timer is still pending
C22_Witness ==
  /\ lastEvent = "submitInvalid"
  /\ values.name = Rep("a", 101)
  /\ marks.name.error
  /\ marks.name.text # "Please enter your name (at least 2 characters)"
  /\ marks.name.text # ""
  /\ banners = <<>>
  /\ \E t \in timers : t.step = "fade"

\* the step settles a submission
SettleStep == lastEvent' \in {"resolved", "rejected"}

\* C23: with several submissions in flight, each settlement shows the banner
\* of the oldest one, which replaces only banners of earlier submissions, so
\* the banner shown when all have settled is that of the submission started
\* last.
C23_LastStartedWins ==
  [][SettleStep =>
       /\ banner' # Null
       /\ banner'.el = Head(inflight)
       /\ \A i \in 1..Len(banners) : banners[i].el < banner'.el
       /\ inflight' = <<>> => banner'.el = started]_vars

\* the first of two overlapping submissions has settled and shows its banner
\* while the second is still in flight
C23_Witness ==
  /\ lastEvent \in {"resolved", "rejected"}
  /\ inflight = <<2>>
  /\ banner # Null
  /\ banner.el = 1

\* C24: for every field inside a form group the error marks agree: the error
\* class, the group's has-error class and aria-invalid go together, and the
\* group's error text is non-empty only while the field is in the error state.
C24_MarksAgree ==
  \A f \in layout.grouped :
    /\ marks[f].error <=> marks[f].hasError
    /\ marks[f].error <=> marks[f].ariaInvalid
    /\ marks[f].text # "" => marks[f].error

\* two grouped fields in the error state after a failed submit: the group of
\* one holds no error element, the other shows its message
C24_Witness ==
  /\ layout.grouped = {"email", "message"}
  /\ marks["email"].error
  /\ marks["email"].text = ""
  /\ marks["message"].error
  /\ marks["message"].text # ""
  /\ lastEvent = "submitInvalid"

----------------------------------------------------------------------------
(* Claims about the theme system, checked under SpecTheme *)

\* the stored item is one of the two themes
StoredTheme(item) == item = {THEME_LIGHT} \/ item = {THEME_DARK}

\* C18: initialisation applies a stored 'light' or 'dark' as it is; with
\* nothing stored or any other stored value it applies 'dark' when the system
\* prefers dark and 'light' in every remaining case.
C18_InitialThemePriority ==
  [][themeEvent' = "init" =>
       /\ StoredTheme(stored) => dataTheme' = stored
       /\ (~StoredTheme(stored) /\ hasMatchMedia /\ systemDark) =>
             dataTheme' = {"dark"}
       /\ (~StoredTheme(stored) /\ ~(hasMatchMedia /\ systemDark)) =>
             dataTheme' = {"light"}]_vars

\* initialisation applied the stored light theme on a system that prefers dark
C18_Witness ==
  /\ themeEvent = "init"
  /\ stored = {"light"}
  /\ hasMatchMedia
  /\ systemDark
  /\ dataTheme = {"light"}

\* C19 as stated: after every toggleTheme the applied theme is the opposite of
\* the one applied before, the stored item equals the applied theme, so that
\* a later initialisation applies it, and two toggles in a row restore the
\* original theme.
C19_TogglePersists ==
  [][themeEvent' = "toggle" =>
       /\ dataTheme = {"light"} => dataTheme' = {"dark"}
       /\ dataTheme = {"dark"} => dataTheme' = {"light"}
       /\ stored' = dataTheme'
       /\ \A matchMedia \in BOOLEAN, matches \in BOOLEAN :
            {getPreferredTheme(stored', matchMedia, matches)} = dataTheme'
       /\ (run' = 2 /\ original # {}) => dataTheme' = original]_vars

\* C19 (amended): after every toggleTheme the applied theme is the opposite of
\* the one applied before, and two toggles in a row restore the original
\* theme; when the write to localStorage did not throw, the stored item
\* equals the applied theme, so that a later initialisation applies it; when
\* it threw, the stored item is left as it was.
C19_TogglePersistsWhenSaved ==
  [][themeEvent' = "toggle" =>
       /\ dataTheme = {"light"} => dataTheme' = {"dark"}
       /\ dataTheme = {"dark"} => dataTheme' = {"light"}
       /\ ~warned' =>
            /\ stored' = dataTheme'
            /\ \A matchMedia \in BOOLEAN, matches \in BOOLEAN :
                 {getPreferredTheme(stored', matchMedia, matches)} = dataTheme'
       /\ warned' => stored' = stored
       /\ (run' = 2 /\ original # {}) => dataTheme' = original]_vars

\* two toggles in a row on a page initialised to light against the system's
\* dark preference: light is applied and stored again
C19_Witness ==
  /\ themeEvent = "toggle"
  /\ run = 2
  /\ original = {"light"}
  /\ dataTheme = {"light"}
  /\ stored = {"light"}
  /\ ~warned
  /\ systemDark
  /\ hasMatchMedia

\* C20: a change of the system colour scheme changes the applied theme exactly
\* when initialisation would not have used the stored item, then to dark or
\* light as the system now prefers, and it never writes the stored item.
C20_FollowsSystemUnlessStored ==
  [][(themeEvent' = "systemChange" /\ listening) =>
       /\ ~StoredTheme(stored) =>
             dataTheme' = {IF systemDark' THEN "dark" ELSE "light"}
       /\ StoredTheme(stored) => dataTheme' = dataTheme
       /\ stored' = stored]_vars

----------------------------------------------------------------------------
(* Claims about the mobile navigation, checked under SpecNav *)

\* the marks of the hamburger, the body and the ARIA attributes follow the menu
NavMarksFollowMenu ==
  /\ menuOpen <=> hamburgerActive
  /\ menuOpen <=> bodyOverflow = "hidden"
  /\ menuOpen <=> ariaExpanded = {"true"}
  /\ menuOpen <=> ariaHidden = {"false"}

\* overlay click, link click, Escape and a resize above 768 px left the menu
\* closed
ClosingEventsClose ==
  /\ mainEvent \in {"overlayClick", "linkClick", "Escape"} => ~menuOpen
  /\ (mainEvent = "resize" /\ innerWidth > 768) => ~menuOpen

\* C25 as stated: after any sequence of hamburger clicks, overlay clicks, link
\* clicks, Escape presses and resizes the menu is open if and only if the
\* hamburger is active, the overlay is open, body scrolling is blocked,
\* aria-expanded is true and aria-hidden is false; the closing events leave
\* the menu closed.
C25_NavMarksAgree ==
  hasNav =>
    /\ NavMarksFollowMenu
    /\ menuOpen <=> overlayOpen
    /\ ClosingEventsClose

\* C25 (amended): the hamburger, the body and the ARIA attributes always
\* follow the menu; the overlay follows it when the page has an overlay
\* element, and without one nothing is marked open for it; the closing
\* events leave the menu closed.
C25_NavMarksAgreeWithOverlay ==
  hasNav =>
    /\ NavMarksFollowMenu
    /\ hasOverlay => (menuOpen <=> overlayOpen)
    /\ ~hasOverlay => ~overlayOpen
    /\ ClosingEventsClose

\* the menu is open again, with every mark set, after Escape had closed it
C25_Witness ==
  /\ hasNav
  /\ hasOverlay
  /\ mainEvent = "hamburgerClick"
  /\ hamburgerFocused
  /\ menuOpen
  /\ hamburgerActive
  /\ overlayOpen
  /\ bodyOverflow = "hidden"
  /\ ariaExpanded = {"true"}
  /\ ariaHidden = {"false"}

----------------------------------------------------------------------------
(* Claims about the typing effect, checked under SpecTyping *)

currentPhrase == phrases[phraseIndex + 1]

\* the typing effect runs: type() was called and every call started a timer
TypingRuns == typingStarted /\ ~halted

\* C26: while the typing effect runs, 0 <= charIndex <= length of the current
\* phrase, the text shown is the prefix of that length of the current phrase
\* and exactly one timer is pending; deleting starts only at the complete
\* phrase, after the pause, and the phrase index advances by one modulo the
\* number of phrases exactly when the phrase is deleted completely.
C26_TypingLoop ==
  /\ [](TypingRuns =>
          /\ 0 <= charIndex
          /\ charIndex <= Len(currentPhrase)
          /\ textContent = SubSeq(currentPhrase, 1, charIndex)
          /\ typingTimers = 1)
  /\ [][(mainEvent' = "type" /\ TypingRuns') =>
          /\ (~isDeleting /\ isDeleting') =>
                /\ isPaused
                /\ charIndex = Len(currentPhrase)
                /\ charIndex' = charIndex
          /\ (isDeleting /\ charIndex' = 0) =>
                phraseIndex' = (phraseIndex + 1) % Len(phrases)
          /\ phraseIndex' # phraseIndex => (isDeleting /\ charIndex' = 0)]_vars

====
